---- MODULE Spec2Model ----
(***************************************************************************)
(* Model of vumi.transports.smpp.smpp_service.SmppService: the guarded     *)
(* submission primitive, the payload variant, the two concatenation        *)
(* strategies (SAR optional parameters, UDH header bytes) and the dispatch *)
(* of submit_sm responses.                                                 *)
(*                                                                         *)
(* Byte strings are sequences of integers 0..255.  Python dicts            *)
(* (pdu_params, optional_parameters) are functions whose domain is the set *)
(* of keys present.  Every @inlineCallbacks method is cut at its yields:   *)
(* what runs between two yields is one action, because the reactor runs    *)
(* one callback chain at a time.                                           *)
(***************************************************************************)
EXTENDS Integers, Sequences, FiniteSets, TLC

\* ------------------------------------------------------------------ bounds
\* Longest message a caller submits.
MaxLen == 300
\* Sessions the reconnecting client creates in one run.
MaxSessions == 2
\* stopService calls in one run.
MaxStops == 2

\* ------------------------------------------------------- program constants
GSM_MAX_SMS_BYTES == 140
GSM_MAX_SMS_7BIT_CHARS == 160
\* GSM_MAX_SMS_BYTES - 10, the payload_length of csm_split_message.
UDH_RESERVE == 10
\* esm_class set on every UDH segment (UDHI flag).
UDHI_ESM_CLASS == 64
\* Moduli the code applies to the reference number.
SAR_REF_MODULUS == 65535
UDH_REF_MODULUS == 255
\* Largest argument chr() accepts plus one.
CHR_RANGE == 256

\* _protocol is None.
None == 0

\* EsmeProtocol's states.
CLOSED_STATE == "CLOSED"
OPEN_STATE == "OPEN"
BoundStates == {"BOUND_TX", "BOUND_RX", "BOUND_TRX"}

throttle_statuses == {"ESME_RTHROTTLED", "ESME_RMSGQFUL"}

\* --------------------------------------------------------- pure functions

\* Python's dict.update / keyword merge: keys of new win over keys of old.
Update(old, new) == new @@ old

\* dict.pop(key) seen as a value: the dict without that key.
Without(d, key) == [k \in (DOMAIN d) \ {key} |-> d[k]]

\* pdu_params.pop('optional_parameters', {}).copy()
PopOptional(d) ==
    IF "optional_parameters" \in DOMAIN d THEN d["optional_parameters"] ELSE <<>>

\* _fits_in_one_message with 0x7f excluded from the printable range.
fits_in_one_message_below_del(message) ==
    IF Len(message) <= GSM_MAX_SMS_BYTES THEN TRUE
    ELSE IF Len(message) <= GSM_MAX_SMS_7BIT_CHARS
         THEN \A k \in 1..Len(message) : 32 <= message[k] /\ message[k] < 127
         ELSE FALSE

\* SmppService._fits_in_one_message
fits_in_one_message(message) ==
    IF Len(message) <= GSM_MAX_SMS_BYTES THEN TRUE
    ELSE IF Len(message) <= GSM_MAX_SMS_7BIT_CHARS
         THEN \A k \in 1..Len(message) : 32 <= message[k] /\ message[k] <= 127
         ELSE FALSE

\* message[n:] starting one byte early.
Drop_from_last_taken(message, n) == SubSeq(message, n, Len(message))

\* message[:n]
Take(message, n) == SubSeq(message, 1, IF n < Len(message) THEN n ELSE Len(message))

\* message[n:]
Drop(message, n) == SubSeq(message, n + 1, Len(message))

\* The loop cutting chunks of the whole byte budget, without the reserve.
RECURSIVE split_loop_full_budget(_, _, _)
split_loop_full_budget(message, payload_length, split_msg) ==
    IF message = <<>> THEN split_msg
    ELSE split_loop_full_budget(Drop(message, GSM_MAX_SMS_BYTES), payload_length,
                                Append(split_msg, Take(message, GSM_MAX_SMS_BYTES)))

\* The while loop of csm_split_message.
RECURSIVE split_loop(_, _, _)
split_loop(message, payload_length, split_msg) ==
    IF message = <<>> THEN split_msg
    ELSE split_loop(Drop(message, payload_length), payload_length,
                    Append(split_msg, Take(message, payload_length)))

\* csm_split_message deciding on the chunk size instead of the one-message test.
csm_split_message_by_payload_length(message) ==
    IF Len(message) <= GSM_MAX_SMS_BYTES - UDH_RESERVE THEN <<message>>
    ELSE split_loop(message, GSM_MAX_SMS_BYTES - UDH_RESERVE, <<>>)

\* SmppService.csm_split_message
csm_split_message(message) ==
    IF fits_in_one_message(message) THEN <<message>>
    ELSE split_loop(message, GSM_MAX_SMS_BYTES - UDH_RESERVE, <<>>)

\* 'sar_msg_ref_num': (ref_num % 0xFFFF)
sar_ref(ref_num) == ref_num % SAR_REF_MODULUS

\* chr(ref_num % 0xFF)
udh_ref(ref_num) == ref_num % UDH_REF_MODULUS

\* The SAR parameters with the loop's 0-based index as the segment number.
sar_optional_parameters_zero_based(optional_parameters, ref_num, total, i) ==
    Update(optional_parameters,
           [k \in {"sar_msg_ref_num", "sar_total_segments", "sar_segment_seqnum"} |->
              CASE k = "sar_msg_ref_num" -> sar_ref(ref_num)
                [] k = "sar_total_segments" -> total
                [] k = "sar_segment_seqnum" -> i])

\* The optional_parameters.update({...}) of submit_csm_sar for segment i (0-based).
sar_optional_parameters(optional_parameters, ref_num, total, i) ==
    Update(optional_parameters,
           [k \in {"sar_msg_ref_num", "sar_total_segments", "sar_segment_seqnum"} |->
              CASE k = "sar_msg_ref_num" -> sar_ref(ref_num)
                [] k = "sar_total_segments" -> total
                [] k = "sar_segment_seqnum" -> i + 1])

\* The header with the segment index written before the total.
udh_header_index_first(ref_num, total, i) ==
    <<5, 0, 3, udh_ref(ref_num), i + 1, total>>

\* The udh = ''.join([...]) of submit_csm_udh for segment i (0-based).
udh_header(ref_num, total, i) ==
    <<5, 0, 3, udh_ref(ref_num), total, i + 1>>

\* chr(n) raises ValueError unless 0 <= n < 256.
ChrOk(n) == 0 <= n /\ n < CHR_RANGE

HexDigits == <<"0", "1", "2", "3", "4", "5", "6", "7",
               "8", "9", "a", "b", "c", "d", "e", "f">>

\* ''.join('%02x' % ord(c) for c in long_message)
hex_payload(long_message) ==
    [k \in 1..(2 * Len(long_message)) |->
        IF k % 2 = 1 THEN HexDigits[(long_message[(k + 1) \div 2] \div 16) + 1]
        ELSE HexDigits[(long_message[k \div 2] % 16) + 1]]

\* ------------------------------------------------------------------ inputs

\* The submission calls of a run; a call's index is its vumi_message_id.
Calls == {1, 2}
\* The calls that are made when submissions do not overlap.
Callers == {1}

\* A byte string of the given length: printable ASCII that varies with the
\* position, with last_byte as its final byte.
MkMessage(length, last_byte) ==
    [k \in 1..length |-> IF k = length THEN last_byte ELSE 32 + (k % 96)]

\* Lengths around the two budgets and the chunk size, up to MaxLen.
Lengths == {n \in {0, 8, GSM_MAX_SMS_BYTES + 1, GSM_MAX_SMS_7BIT_CHARS,
                    GSM_MAX_SMS_7BIT_CHARS + 1, 260, 261, MaxLen} :
              n <= MaxLen}

\* A printable byte and a byte outside the printable range.
LastBytes == {65, 128}

Messages == {MkMessage(n, b) : n \in Lengths, b \in LastBytes}

\* Messages for the two pure methods: lengths on both sides of the chunk size
\* and of the two budgets, one chosen byte at the start, the middle or the end.
ProbeLengths == {n \in {0, 1, 129, 130, 131, 139, GSM_MAX_SMS_BYTES, GSM_MAX_SMS_BYTES + 1,
                         159, GSM_MAX_SMS_7BIT_CHARS, GSM_MAX_SMS_7BIT_CHARS + 1,
                         259, 260, 261, MaxLen} :
                   n <= MaxLen}
ProbeBytes == {0, 31, 32, 65, 127, 128, 255}
MkProbe(length, position, byte) ==
    [k \in 1..length |-> IF k = position THEN byte ELSE 32 + (k % 96)]
ProbeMessages ==
    {MkProbe(n, position, byte) :
        n \in ProbeLengths, position \in {1, 70, 141, 160}, byte \in ProbeBytes}

\* Keyword arguments a caller passes besides the message text.
CallerOptional == [k \in {"sar_msg_ref_num", "its_reply_to"} |-> 9]
KwChoices == {<<>>,
              [k \in {"esm_class"} |-> 3],
              [k \in {"optional_parameters"} |-> CallerOptional]}
LongKwChoices == KwChoices \cup {[k \in {"short_message"} |-> <<65>>]}

\* Statuses a submit_sm_resp PDU can carry, and the ids the SMSC assigns.
Statuses == {"ESME_ROK", "ESME_RTHROTTLED", "ESME_RMSGQFUL",
             "ESME_RINVDSTADR", "ESME_RSYSERR", "ESME_RSUBMITFAIL"}
SmppMessageIds == {"smsc-1", "smsc-2"}

\* Values the stored sequence counter can hold when the service starts.
InitialSequences == {0, 254, 255, 65534, 65535}

\* ------------------------------------------------------------------- state

VARIABLES
    protocol,            \* self._protocol: None or the current session
    sessions,            \* sessions created so far by the reconnecting client
    sequence_generator,  \* last value handed out by self.sequence_generator
    session_seq,         \* last PDU sequence number assigned by a session
    message_stash,       \* self.message_stash: message id -> part count
    calls,               \* the submission calls: locals, position, history
    handled,             \* the latest submit_sm response and the transport
                         \* handlers handle_submit_sm_resp invoked for it
    probe,               \* a message and what _fits_in_one_message and
                         \* csm_split_message returned for it
    session_state,       \* the state each session created so far reports
    transport,           \* self.transport: whether its connectors are paused
                         \* and what the service last asked of them
    lifecycle            \* the stopService calls and the latest of the
                         \* bind / connection-lost signals

vars == <<protocol, sessions, sequence_generator, session_seq, message_stash, calls,
          handled, probe, session_state, transport, lifecycle>>

NotConnected == "EsmeProtocolError: called while not connected"
InvalidParameter == "EsmeProtocolError: parameter not allowed"
ValueError == "ValueError: chr() arg not in range(256)"
AttributeError == "AttributeError: 'NoneType' object has no attribute 'disconnect'"

NewCall(c) ==
    [vumi_message_id |-> c, op |-> "none", pc |-> "idle",
     message |-> <<>>, kw |-> <<>>,
     pdu_params |-> <<>>, split_msg |-> <<>>, optional_parameters |-> <<>>,
     ref_num |-> 0, i |-> 0, sequence_numbers |-> <<>>,
     error |-> "", result |-> <<>>,
     \* history of the call, not read by the program
     connected_at_call |-> FALSE, ref_draws |-> 0, stash_writes |-> 0,
     sent |-> <<>>]

\* No message has been given to the two pure methods.
NoProbe == [message |-> <<>>, fits_applied |-> FALSE, fits |-> FALSE,
            split_applied |-> FALSE, split_msg |-> <<>>]

\* The service after __init__, before start.
InitService ==
    /\ protocol = None
    /\ sessions = 0
    /\ sequence_generator \in InitialSequences
    /\ session_seq = 0
    /\ message_stash = <<>>
    /\ calls = [c \in Calls |-> NewCall(c)]
    /\ handled = [args |-> <<>>, invoked |-> <<>>]
    /\ session_state = <<>>
    /\ transport = [paused |-> TRUE, asked |-> "none"]
    /\ lifecycle = [last_signal |-> "none", stopped |-> FALSE,
                    stop_waiting |-> FALSE, stop_pending |-> <<>>,
                    stop_error |-> "", stop_calls |-> <<>>]

Init ==
    /\ InitService
    /\ probe = NoProbe

\* The service with a message about to be given to the two pure methods.
InitFn ==
    /\ InitService
    /\ \E message \in ProbeMessages : probe = [NoProbe EXCEPT !.message = message]

\* ---------------------------------------------------- reconnecting client

\* SmppService.on_connection_lost with pause and unpause exchanged.
on_connection_lost_unpausing == "unpause_connectors"

\* SmppService.on_smpp_bind: the transport method it calls.
on_smpp_bind == "unpause_connectors"

\* SmppService.on_connection_lost: the transport method it calls.
on_connection_lost == "pause_connectors"

\* The transport after the service called one of its connector methods.
transport_after(method) ==
    [paused |-> (method = "pause_connectors"), asked |-> method]

\* ReconnectingClientService.clientConnected: a new session, connected and
\* not yet bound, becomes current.
clientConnected ==
    /\ protocol = None
    /\ ~lifecycle.stopped
    /\ sessions < MaxSessions
    /\ sessions' = sessions + 1
    /\ protocol' = sessions + 1
    /\ session_state' = Append(session_state, OPEN_STATE)
    /\ UNCHANGED <<transport, lifecycle, probe, handled, sequence_generator, session_seq,
                   message_stash, calls>>

\* The current session completed its bind and signals the service.
smpp_bound ==
    /\ protocol # None
    /\ session_state[protocol] = OPEN_STATE
    /\ \E state \in BoundStates :
         session_state' = [session_state EXCEPT ![protocol] = state]
    /\ transport' = transport_after(on_smpp_bind)
    /\ lifecycle' = [lifecycle EXCEPT !.last_signal = "bind"]
    /\ UNCHANGED <<protocol, sessions, probe, handled, sequence_generator, session_seq,
                   message_stash, calls>>

\* The connection is lost: the session closes and signals the service, and
\* ReconnectingClientService.clientConnectionLost drops it.
clientConnectionLost ==
    /\ protocol # None
    /\ protocol' = None
    /\ session_state' = [session_state EXCEPT ![protocol] = CLOSED_STATE]
    /\ transport' = transport_after(on_connection_lost)
    /\ lifecycle' = [lifecycle EXCEPT !.last_signal = "lost"]
    /\ UNCHANGED <<probe, handled, sessions, sequence_generator, session_seq,
                   message_stash, calls>>

\* SmppService.get_bind_state reading the first session it was given.
get_bind_state_first_session ==
    IF sessions = 0 THEN CLOSED_STATE ELSE session_state[1]

\* SmppService.get_bind_state
get_bind_state ==
    IF protocol = None THEN CLOSED_STATE ELSE session_state[protocol]

\* EsmeProtocol.is_bound of a session.
session_is_bound(session) == session_state[session] \in BoundStates

\* SmppService.is_bound
is_bound ==
    IF protocol # None THEN session_is_bound(protocol) ELSE FALSE

\* ---------------------------------------------------------------- shutdown

\* stopService asking for the disconnect whether or not a session exists.
stopService_unguarded == <<"disconnect", "stopService">>

\* SmppService.stopService: the callbacks it adds to the fired Deferred, in
\* order: the session's disconnect if there is a session, then
\* ReconnectingClientService.stopService.
stopService ==
    IF protocol # None THEN <<"disconnect", "stopService">> ELSE <<"stopService">>

\* The latest stopService call with one more thing it did.
stop_did(lc, event) ==
    [lc EXCEPT !.stop_calls[Len(lc.stop_calls)].events = Append(@, event)]

\* The Deferred's callbacks run in order until one returns a Deferred that
\* has not fired (disconnect) or raises (disconnect of no session).
RECURSIVE run_callbacks(_, _)
run_callbacks(chain, lc) ==
    IF chain = <<>>
    THEN [lc EXCEPT !.stop_pending = <<>>,
                    !.stop_calls[Len(lc.stop_calls)].completed = TRUE]
    ELSE IF Head(chain) = "disconnect"
    THEN IF protocol = None
         THEN [lc EXCEPT !.stop_pending = <<>>, !.stop_error = AttributeError]
         ELSE [stop_did(lc, "disconnect") EXCEPT !.stop_waiting = TRUE,
                                                 !.stop_pending = Tail(chain)]
    ELSE run_callbacks(Tail(chain),
                       [stop_did(lc, "stopService") EXCEPT !.stopped = TRUE])

\* stopService is called.
stopService_call ==
    /\ ~lifecycle.stop_waiting
    /\ lifecycle.stop_error = ""
    /\ Len(lifecycle.stop_calls) < MaxStops
    /\ lifecycle' =
         run_callbacks(stopService,
                       [lifecycle EXCEPT !.stop_calls =
                           Append(@, [session |-> protocol, events |-> <<>>,
                                      completed |-> FALSE])])
    /\ UNCHANGED <<protocol, sessions, sequence_generator, session_seq, message_stash,
                   calls, handled, probe, session_state, transport>>

\* The session's disconnect Deferred fires and the remaining callbacks run.
disconnect_fired ==
    /\ lifecycle.stop_waiting
    /\ lifecycle' = run_callbacks(lifecycle.stop_pending,
                                  [lifecycle EXCEPT !.stop_waiting = FALSE])
    /\ UNCHANGED <<protocol, sessions, sequence_generator, session_seq, message_stash,
                   calls, handled, probe, session_state, transport>>

\* ------------------------------------------------------------- submission

\* SmppService.get_protocol
get_protocol == protocol

\* The wrapper catching the not-connected error and ending the call with
\* what was sent so far.
submit_sm_swallowing(call, kw) ==
    IF get_protocol = None
    THEN [call EXCEPT !.pc = "done", !.result = call.sequence_numbers]
    ELSE [call EXCEPT !.pc = "wait_submit",
                      !.sent = Append(@, [protocol |-> get_protocol,
                                          vumi_message_id |-> call.vumi_message_id,
                                          kw |-> kw,
                                          sequence_number |-> session_seq + 1])]

\* The wrapper keeping the session of the call's first submission.
submit_sm_held_session(call, kw) ==
    IF get_protocol = None
    THEN [call EXCEPT !.pc = "failed", !.error = NotConnected]
    ELSE [call EXCEPT !.pc = "wait_submit",
                      !.sent = Append(@, [protocol |-> IF call.sent # <<>>
                                                       THEN call.sent[1].protocol
                                                       ELSE get_protocol,
                                          vumi_message_id |-> call.vumi_message_id,
                                          kw |-> kw,
                                          sequence_number |-> session_seq + 1])]

\* proxy_protocol's wrapper around submit_sm, as the call record it leaves:
\* the not-connected error, or the submission handed to the current session.
submit_sm(call, kw) ==
    IF get_protocol = None
    THEN [call EXCEPT !.pc = "failed", !.error = NotConnected]
    ELSE [call EXCEPT !.pc = "wait_submit",
                      !.sent = Append(@, [protocol |-> get_protocol,
                                          vumi_message_id |-> call.vumi_message_id,
                                          kw |-> kw,
                                          sequence_number |-> session_seq + 1])]

\* The session assigns the next PDU sequence number to a submission it takes.
session_seq_after(call_after) ==
    IF call_after.pc = "wait_submit" THEN session_seq + 1 ELSE session_seq

\* A call record entered with the caller's arguments.
Entered(c, op, message, kw) ==
    [calls[c] EXCEPT !.op = op, !.message = message, !.kw = kw,
                     !.connected_at_call = (protocol # None)]

\* The sequence number list the session's Deferred fires with: the number
\* assigned to the call's latest submission.
submit_sm_result(call) == <<call.sent[Len(call.sent)].sequence_number>>

\* SmppService.submit_sm called by the transport.
submit_sm_call(c, messages, kws) ==
    /\ calls[c].pc = "idle"
    /\ \E message \in messages, kw \in kws :
         LET pdu_params == Update(kw, [k \in {"short_message"} |-> message])
             entered == [Entered(c, "submit_sm", message, kw) EXCEPT
                            !.pdu_params = pdu_params]
             after == submit_sm(entered, pdu_params)
         IN /\ calls' = [calls EXCEPT ![c] = after]
            /\ session_seq' = session_seq_after(after)
    /\ UNCHANGED <<session_state, transport, lifecycle, probe, handled, protocol, sessions, sequence_generator, message_stash>>

\* submit_sm_long without the short_message check: the keyword is overwritten.
submit_sm_long_unchecked(entered) ==
    LET pdu_params == entered.kw
        optional_parameters ==
            Update(PopOptional(pdu_params),
                   [k \in {"message_payload"} |-> hex_payload(entered.message)])
    IN submit_sm([entered EXCEPT !.pdu_params = pdu_params,
                                 !.optional_parameters = optional_parameters],
                 Update(Without(pdu_params, "optional_parameters"),
                        [k \in {"short_message", "sm_length", "optional_parameters"} |->
                           CASE k = "short_message" -> <<>>
                             [] k = "sm_length" -> 0
                             [] k = "optional_parameters" -> optional_parameters]))

\* SmppService.submit_sm_long, from the call record holding its arguments.
submit_sm_long(entered) ==
    LET long_message == entered.message
        pdu_params == entered.kw
        optional_parameters ==
            Update(PopOptional(pdu_params),
                   [k \in {"message_payload"} |-> hex_payload(long_message)])
        kw == Update(Without(pdu_params, "optional_parameters"),
                     [k \in {"short_message", "sm_length", "optional_parameters"} |->
                        CASE k = "short_message" -> <<>>
                          [] k = "sm_length" -> 0
                          [] k = "optional_parameters" -> optional_parameters])
    IN IF "short_message" \in DOMAIN pdu_params
       THEN [entered EXCEPT !.pdu_params = pdu_params,
                            !.pc = "failed", !.error = InvalidParameter]
       ELSE submit_sm([entered EXCEPT !.pdu_params = pdu_params,
                                      !.optional_parameters = optional_parameters], kw)

\* The transport calls submit_sm_long.
submit_sm_long_call(c, messages, kws) ==
    /\ calls[c].pc = "idle"
    /\ \E long_message \in messages, pdu_params \in kws :
         LET after == submit_sm_long(Entered(c, "submit_sm_long", long_message, pdu_params))
         IN /\ calls' = [calls EXCEPT ![c] = after]
            /\ session_seq' = session_seq_after(after)
    /\ UNCHANGED <<session_state, transport, lifecycle, probe, handled, protocol, sessions, sequence_generator, message_stash>>

\* The Deferred of submit_sm / submit_sm_long fires with the session's list.
submit_sm_fired(c) ==
    /\ calls[c].pc = "wait_submit"
    /\ calls[c].op \in {"submit_sm", "submit_sm_long"}
    /\ calls' = [calls EXCEPT ![c].pc = "done", ![c].result = submit_sm_result(calls[c])]
    /\ UNCHANGED <<session_state, transport, lifecycle, probe, handled, protocol, sessions, sequence_generator, session_seq, message_stash>>

\* ------------------------------------------------------ SAR concatenation

\* submit_csm_sar up to its first yield, from the call record holding its
\* arguments: the single-part submission, or the request for a reference
\* number.
submit_csm_sar(entered) ==
    LET split_msg == csm_split_message(entered.message)
        pdu_params == entered.kw
        call == [entered EXCEPT !.pdu_params = pdu_params, !.split_msg = split_msg]
    IN IF Len(split_msg) = 1
       THEN submit_sm(call, Update(pdu_params,
                                   [k \in {"short_message"} |-> split_msg[1]]))
       ELSE [call EXCEPT !.pdu_params = Without(pdu_params, "optional_parameters"),
                         !.optional_parameters = PopOptional(pdu_params),
                         !.ref_draws = @ + 1,
                         !.pc = "wait_ref"]

\* The transport calls submit_csm_sar.
submit_csm_sar_call(c, messages, kws) ==
    /\ calls[c].pc = "idle"
    /\ \E message \in messages, kw \in kws :
         LET after == submit_csm_sar(Entered(c, "submit_csm_sar", message, kw))
         IN /\ calls' = [calls EXCEPT ![c] = after]
            /\ session_seq' = session_seq_after(after)
    /\ UNCHANGED <<session_state, transport, lifecycle, probe, handled, protocol, sessions, sequence_generator, message_stash>>

\* One pass of the for loop of submit_csm_sar, for segment call.i (0-based),
\* up to the yield on submit_sm.
sar_segment(call) ==
    LET optional_parameters ==
            sar_optional_parameters(call.optional_parameters, call.ref_num,
                                    Len(call.split_msg), call.i)
    IN submit_sm([call EXCEPT !.optional_parameters = optional_parameters],
                 Update(call.pdu_params,
                        [k \in {"short_message", "optional_parameters"} |->
                           IF k = "short_message" THEN call.split_msg[call.i + 1]
                           ELSE optional_parameters]))

\* submit_csm_sar going from the reference number straight to the first
\* segment, with no init_multipart_info.
sar_ref_num_unstashed(c) ==
    /\ calls[c].pc = "wait_ref"
    /\ calls[c].op = "submit_csm_sar"
    /\ sequence_generator' = sequence_generator + 1
    /\ LET after == sar_segment([calls[c] EXCEPT !.ref_num = sequence_generator + 1,
                                               !.sequence_numbers = <<>>,
                                               !.i = 0])
       IN /\ calls' = [calls EXCEPT ![c] = after]
          /\ session_seq' = session_seq_after(after)
    /\ UNCHANGED <<session_state, transport, lifecycle, probe, handled, protocol, sessions, message_stash>>

\* sequence_generator.next() fires: ref_num is bound, sequence_numbers = [],
\* and init_multipart_info is requested.
sar_ref_num(c) ==
    /\ calls[c].pc = "wait_ref"
    /\ calls[c].op = "submit_csm_sar"
    /\ sequence_generator' = sequence_generator + 1
    /\ calls' = [calls EXCEPT ![c].ref_num = sequence_generator + 1,
                              ![c].sequence_numbers = <<>>,
                              ![c].pc = "wait_stash"]
    /\ UNCHANGED <<session_state, transport, lifecycle, probe, handled, protocol, sessions, session_seq, message_stash>>

\* init_multipart_info fires: the stash holds the part count, and the loop
\* starts with the first segment.
sar_stashed(c) ==
    /\ calls[c].pc = "wait_stash"
    /\ calls[c].op = "submit_csm_sar"
    /\ message_stash' = (c :> Len(calls[c].split_msg)) @@ message_stash
    /\ LET after == sar_segment([calls[c] EXCEPT !.stash_writes = @ + 1, !.i = 0])
       IN /\ calls' = [calls EXCEPT ![c] = after]
          /\ session_seq' = session_seq_after(after)
    /\ UNCHANGED <<session_state, transport, lifecycle, probe, handled, protocol, sessions, sequence_generator>>

\* The new sequence numbers put in front of the list.
extend_front(sequence_numbers, sequence_number) == sequence_number \o sequence_numbers

\* sequence_numbers.extend(sequence_number)
extend(sequence_numbers, sequence_number) == sequence_numbers \o sequence_number

\* A submit_sm of submit_csm_sar fires: the single part returns its list; a
\* segment's list is appended and the loop goes on or returns.
sar_submitted(c) ==
    /\ calls[c].pc = "wait_submit"
    /\ calls[c].op = "submit_csm_sar"
    /\ LET call == calls[c]
           sequence_numbers == extend(call.sequence_numbers, submit_sm_result(call))
           after ==
               IF Len(call.split_msg) = 1
               THEN [call EXCEPT !.pc = "done", !.result = submit_sm_result(call)]
               ELSE IF call.i + 1 < Len(call.split_msg)
               THEN sar_segment([call EXCEPT !.sequence_numbers = sequence_numbers,
                                             !.i = @ + 1])
               ELSE [call EXCEPT !.sequence_numbers = sequence_numbers,
                                 !.pc = "done", !.result = sequence_numbers]
       IN /\ calls' = [calls EXCEPT ![c] = after]
          /\ session_seq' = session_seq_after(after)
    /\ UNCHANGED <<session_state, transport, lifecycle, probe, handled, protocol, sessions, sequence_generator, message_stash>>

\* ------------------------------------------------------ UDH concatenation

\* submit_csm_udh without the esm_class check.
submit_csm_udh_unchecked(entered) ==
    LET split_msg == csm_split_message(entered.message)
        call == [entered EXCEPT !.pdu_params = entered.kw, !.split_msg = split_msg]
    IN IF Len(split_msg) = 1
       THEN submit_sm(call, Update(entered.kw,
                                   [k \in {"short_message"} |-> split_msg[1]]))
       ELSE [call EXCEPT !.ref_draws = @ + 1, !.pc = "wait_ref"]

\* submit_csm_udh up to its first yield, from the call record holding its
\* arguments: the esm_class check, then the single-part submission or the
\* request for a reference number.
submit_csm_udh(entered) ==
    LET split_msg == csm_split_message(entered.message)
        pdu_params == entered.kw
        call == [entered EXCEPT !.pdu_params = pdu_params]
    IN IF "esm_class" \in DOMAIN pdu_params
       THEN [call EXCEPT !.pc = "failed", !.error = InvalidParameter]
       ELSE IF Len(split_msg) = 1
       THEN submit_sm([call EXCEPT !.split_msg = split_msg],
                      Update(pdu_params, [k \in {"short_message"} |-> split_msg[1]]))
       ELSE [call EXCEPT !.split_msg = split_msg,
                         !.ref_draws = @ + 1,
                         !.pc = "wait_ref"]

\* The transport calls submit_csm_udh.
submit_csm_udh_call(c, messages, kws) ==
    /\ calls[c].pc = "idle"
    /\ \E message \in messages, kw \in kws :
         LET after == submit_csm_udh(Entered(c, "submit_csm_udh", message, kw))
         IN /\ calls' = [calls EXCEPT ![c] = after]
            /\ session_seq' = session_seq_after(after)
    /\ UNCHANGED <<session_state, transport, lifecycle, probe, handled, protocol, sessions, sequence_generator, message_stash>>

\* One pass of the for loop of submit_csm_udh, for segment call.i (0-based),
\* up to the yield on submit_sm; chr() raises on a value that is no byte.
udh_segment(call) ==
    LET pdu_params == Update(call.pdu_params, [k \in {"esm_class"} |-> UDHI_ESM_CLASS])
        total == Len(call.split_msg)
        udh == udh_header(call.ref_num, total, call.i)
        short_message == udh \o call.split_msg[call.i + 1]
    IN IF ~(ChrOk(udh[4]) /\ ChrOk(udh[5]) /\ ChrOk(udh[6]))
       THEN [call EXCEPT !.pdu_params = pdu_params,
                         !.pc = "failed", !.error = ValueError]
       ELSE submit_sm([call EXCEPT !.pdu_params = pdu_params],
                      Update(pdu_params, [k \in {"short_message"} |-> short_message]))

\* ref_num kept on the service instead of in the call: every call in flight
\* sees the number drawn last.
udh_ref_num_shared(c) ==
    /\ calls[c].pc = "wait_ref"
    /\ calls[c].op = "submit_csm_udh"
    /\ sequence_generator' = sequence_generator + 1
    /\ calls' = [d \in Calls |->
                   IF d = c
                   THEN [calls[d] EXCEPT !.ref_num = sequence_generator + 1,
                                         !.sequence_numbers = <<>>,
                                         !.pc = "wait_stash"]
                   ELSE IF calls[d].pc = "idle"
                        THEN calls[d]
                        ELSE [calls[d] EXCEPT !.ref_num = sequence_generator + 1]]
    /\ UNCHANGED <<session_state, transport, lifecycle, probe, handled, protocol, sessions, session_seq, message_stash>>

\* sequence_generator.next() fires: ref_num is bound, sequence_numbers = [],
\* and init_multipart_info is requested.
udh_ref_num(c) ==
    /\ calls[c].pc = "wait_ref"
    /\ calls[c].op = "submit_csm_udh"
    /\ sequence_generator' = sequence_generator + 1
    /\ calls' = [calls EXCEPT ![c].ref_num = sequence_generator + 1,
                              ![c].sequence_numbers = <<>>,
                              ![c].pc = "wait_stash"]
    /\ UNCHANGED <<session_state, transport, lifecycle, probe, handled, protocol, sessions, session_seq, message_stash>>

\* init_multipart_info fires: the stash holds the part count, and the loop
\* starts with the first segment.
udh_stashed(c) ==
    /\ calls[c].pc = "wait_stash"
    /\ calls[c].op = "submit_csm_udh"
    /\ message_stash' = (c :> Len(calls[c].split_msg)) @@ message_stash
    /\ LET after == udh_segment([calls[c] EXCEPT !.stash_writes = @ + 1, !.i = 0])
       IN /\ calls' = [calls EXCEPT ![c] = after]
          /\ session_seq' = session_seq_after(after)
    /\ UNCHANGED <<session_state, transport, lifecycle, probe, handled, protocol, sessions, sequence_generator>>

\* A submit_sm of submit_csm_udh fires: the single part returns its list; a
\* segment's list is appended and the loop goes on or returns.
udh_submitted(c) ==
    /\ calls[c].pc = "wait_submit"
    /\ calls[c].op = "submit_csm_udh"
    /\ LET call == calls[c]
           sequence_numbers == extend(call.sequence_numbers, submit_sm_result(call))
           after ==
               IF Len(call.split_msg) = 1
               THEN [call EXCEPT !.pc = "done", !.result = submit_sm_result(call)]
               ELSE IF call.i + 1 < Len(call.split_msg)
               THEN udh_segment([call EXCEPT !.sequence_numbers = sequence_numbers,
                                             !.i = @ + 1])
               ELSE [call EXCEPT !.sequence_numbers = sequence_numbers,
                                 !.pc = "done", !.result = sequence_numbers]
       IN /\ calls' = [calls EXCEPT ![c] = after]
          /\ session_seq' = session_seq_after(after)
    /\ UNCHANGED <<session_state, transport, lifecycle, probe, handled, protocol, sessions, sequence_generator, message_stash>>

\* ------------------------------------------------------ response dispatch

\* SmppService.handle_submit_sm_throttled: the transport handler it invokes.
handle_submit_sm_throttled(message_id) ==
    <<[handler |-> "handle_submit_sm_throttled", args |-> <<message_id>>]>>

\* handle_submit_sm_resp without the throttle test.
handle_submit_sm_resp_unthrottled(message_id, smpp_message_id, pdu_status) ==
    LET func == IF pdu_status = "ESME_ROK"
                THEN "handle_submit_sm_success"
                ELSE "handle_submit_sm_failure"
    IN <<[handler |-> func, args |-> <<message_id, smpp_message_id, pdu_status>>]>>

\* SmppService.handle_submit_sm_resp: the transport handlers it invokes, in
\* order, with their arguments.
handle_submit_sm_resp(message_id, smpp_message_id, pdu_status) ==
    IF pdu_status \in throttle_statuses
    THEN handle_submit_sm_throttled(message_id)
    ELSE LET func == IF pdu_status = "ESME_ROK"
                     THEN "handle_submit_sm_success"
                     ELSE "handle_submit_sm_failure"
         IN <<[handler |-> func, args |-> <<message_id, smpp_message_id, pdu_status>>]>>

\* The current session received a submit_sm_resp PDU and hands it to the
\* service.
submit_sm_resp ==
    /\ protocol # None
    /\ \E message_id \in Calls, smpp_message_id \in SmppMessageIds, pdu_status \in Statuses :
         handled' = [args |-> <<message_id, smpp_message_id, pdu_status>>,
                     invoked |-> handle_submit_sm_resp(message_id, smpp_message_id,
                                                       pdu_status)]
    /\ UNCHANGED <<protocol, sessions, sequence_generator, session_seq, message_stash,
                   calls, probe, session_state, transport, lifecycle>>

\* ----------------------------------------------------------- pure methods

\* _fits_in_one_message is called on the message.
apply_fits_in_one_message ==
    /\ ~probe.fits_applied
    /\ probe' = [probe EXCEPT !.fits_applied = TRUE,
                              !.fits = fits_in_one_message(probe.message)]
    /\ UNCHANGED <<protocol, sessions, sequence_generator, session_seq, message_stash,
                   calls, handled, session_state, transport, lifecycle>>

\* csm_split_message is called on the message.
apply_csm_split_message ==
    /\ ~probe.split_applied
    /\ probe' = [probe EXCEPT !.split_applied = TRUE,
                              !.split_msg = csm_split_message(probe.message)]
    /\ UNCHANGED <<protocol, sessions, sequence_generator, session_seq, message_stash,
                   calls, handled, session_state, transport, lifecycle>>

\* ------------------------------------------------------------ specification

Next ==
    \/ clientConnected
    \/ clientConnectionLost
    \/ \E c \in Callers : submit_sm_call(c, Messages, KwChoices)
    \/ \E c \in Callers : submit_sm_long_call(c, Messages, LongKwChoices)
    \/ \E c \in Callers : submit_sm_fired(c)
    \/ \E c \in Callers : submit_csm_sar_call(c, Messages, KwChoices)
    \/ \E c \in Callers : sar_ref_num(c)
    \/ \E c \in Callers : sar_stashed(c)
    \/ \E c \in Callers : sar_submitted(c)
    \/ \E c \in Callers : submit_csm_udh_call(c, Messages, KwChoices)
    \/ \E c \in Callers : udh_ref_num(c)
    \/ \E c \in Callers : udh_stashed(c)
    \/ \E c \in Callers : udh_submitted(c)

Spec == Init /\ [][Next]_vars

\* The session's life and the responses it delivers.
NextResp ==
    \/ clientConnected
    \/ clientConnectionLost
    \/ submit_sm_resp

SpecResp == Init /\ [][NextResp]_vars

\* Messages of two and of three chunks, for calls made side by side.
ConcMessages == {MkMessage(GSM_MAX_SMS_7BIT_CHARS + 1, 65), MkMessage(MaxLen, 65)}

\* Two callers whose concatenation calls interleave at every yield.
NextConc ==
    \/ clientConnected
    \/ \E c \in Calls : submit_csm_sar_call(c, ConcMessages, {<<>>})
    \/ \E c \in Calls : sar_ref_num(c)
    \/ \E c \in Calls : sar_stashed(c)
    \/ \E c \in Calls : sar_submitted(c)
    \/ \E c \in Calls : submit_csm_udh_call(c, ConcMessages, {<<>>})
    \/ \E c \in Calls : udh_ref_num(c)
    \/ \E c \in Calls : udh_stashed(c)
    \/ \E c \in Calls : udh_submitted(c)

SpecConc == Init /\ [][NextConc]_vars

\* The two pure methods applied to one message.
NextFn ==
    \/ apply_fits_in_one_message
    \/ apply_csm_split_message

SpecFn == InitFn /\ [][NextFn]_vars

\* The session's life, its signals to the service, and shutdown.
NextLife ==
    \/ clientConnected
    \/ smpp_bound
    \/ clientConnectionLost
    \/ stopService_call
    \/ disconnect_fired

SpecLife == Init /\ [][NextLife]_vars

\* ------------------------------------------------------------ properties

CsmOps == {"submit_csm_sar", "submit_csm_udh"}

\* The call was made with esm_class to submit_csm_udh.
UdhWithEsmClass(call) ==
    call.op = "submit_csm_udh" /\ "esm_class" \in DOMAIN call.kw

\* The call is an accepted concatenation call.
IsCsm(call) == call.op \in CsmOps /\ ~UdhWithEsmClass(call)

\* Number of chunks the call's message is split into.
Total(call) == Len(csm_split_message(call.message))

IsMultipart(call) == IsCsm(call) /\ Total(call) > 1

\* Segmentation fields the session saw on the k-th submission of a call.
SegRef(call, k) ==
    IF call.op = "submit_csm_sar"
    THEN call.sent[k].kw["optional_parameters"]["sar_msg_ref_num"]
    ELSE call.sent[k].kw["short_message"][4]
SegTotal(call, k) ==
    IF call.op = "submit_csm_sar"
    THEN call.sent[k].kw["optional_parameters"]["sar_total_segments"]
    ELSE call.sent[k].kw["short_message"][5]
SegIndex(call, k) ==
    IF call.op = "submit_csm_sar"
    THEN call.sent[k].kw["optional_parameters"]["sar_segment_seqnum"]
    ELSE call.sent[k].kw["short_message"][6]

\* C1: a multi-chunk message gets at most one stash write; once any of its
\* segments has been handed to a session, exactly one write has been made and
\* the stash maps the message id to the chunk count.
C1_StashedBeforeSegments ==
    \A c \in Calls :
      LET call == calls[c] IN
        IsMultipart(call) =>
          /\ call.stash_writes <= 1
          /\ (call.sent # <<>> \/ call.pc = "done") =>
                /\ call.stash_writes = 1
                /\ c \in DOMAIN message_stash
                /\ message_stash[c] = Total(call)

\* The 300-byte message sent through UDH: three segments out, stash holds 3.
C1_Witness ==
    \E c \in Calls :
      /\ calls[c].op = "submit_csm_udh"
      /\ Len(calls[c].message) = MaxLen
      /\ calls[c].pc = "done"
      /\ Len(calls[c].sent) = 3
      /\ c \in DOMAIN message_stash

\* C2 (as claimed): submit_sm, submit_csm_sar or submit_csm_udh called with
\* acceptable parameters while no session exists has failed with the
\* not-connected error without drawing a reference number or writing the stash.
C2_NotConnectedNoEffect ==
    \A c \in Calls :
      LET call == calls[c] IN
        (/\ call.op \in {"submit_sm", "submit_csm_sar", "submit_csm_udh"}
         /\ ~UdhWithEsmClass(call)
         /\ ~call.connected_at_call) =>
          /\ call.pc = "failed"
          /\ call.error = NotConnected
          /\ call.ref_draws = 0
          /\ call.stash_writes = 0

\* C3: a multi-chunk message draws its reference number once; the k-th
\* submission carries index k, total N and the one reference value, at most N
\* are made, and a completed call made exactly N.
C3_SegmentsInOrder ==
    \A c \in Calls :
      LET call == calls[c] IN
        IsMultipart(call) =>
          /\ call.ref_draws = 1
          /\ Len(call.sent) <= Total(call)
          /\ \A k \in 1..Len(call.sent) :
                /\ SegIndex(call, k) = k
                /\ SegTotal(call, k) = Total(call)
                /\ SegRef(call, k) = SegRef(call, 1)
          /\ call.pc = "done" => Len(call.sent) = Total(call)

\* A three-segment SAR send that completed.
C3_Witness ==
    \E c \in Calls :
      /\ calls[c].op = "submit_csm_sar"
      /\ calls[c].pc = "done"
      /\ Len(calls[c].sent) = 3
      /\ SegIndex(calls[c], 3) = 3

\* C4 (as claimed): every SAR segment's sar_msg_ref_num is the reference
\* number modulo 0x10000.
C4_SarRefMod65536 ==
    \A c \in Calls :
      LET call == calls[c] IN
        (call.op = "submit_csm_sar" /\ IsMultipart(call)) =>
          \A k \in 1..Len(call.sent) : SegRef(call, k) = call.ref_num % 65536

\* C5 (as claimed): the reference byte of every UDH segment is the reference
\* number modulo 0x100.
C5_UdhRefMod256 ==
    \A c \in Calls :
      LET call == calls[c] IN
        (call.op = "submit_csm_udh" /\ IsMultipart(call)) =>
          \A k \in 1..Len(call.sent) : SegRef(call, k) = call.ref_num % 256

\* C6: every UDH segment's short_message is 05 00 03, the reference byte the
\* call derived from its reference number, the total N, the 1-based index,
\* then the chunk's bytes unchanged; and its esm_class is 0x40.
C6_UdhSegmentLayout ==
    \A c \in Calls :
      LET call == calls[c] IN
        (call.op = "submit_csm_udh" /\ IsMultipart(call)) =>
          \A k \in 1..Len(call.sent) :
            LET short_message == call.sent[k].kw["short_message"]
                chunk == csm_split_message(call.message)[k]
            IN /\ Len(short_message) = 6 + Len(chunk)
               /\ SubSeq(short_message, 1, 3) = <<5, 0, 3>>
               /\ short_message[4] = udh_ref(call.ref_num)
               /\ short_message[4] \in 0..255
               /\ short_message[5] = Total(call)
               /\ short_message[6] = k
               /\ SubSeq(short_message, 7, Len(short_message)) = chunk
               /\ "esm_class" \in DOMAIN call.sent[k].kw
               /\ call.sent[k].kw["esm_class"] = 64

\* The last of three UDH segments is out, a 40-byte chunk behind its header.
C6_Witness ==
    \E c \in Calls :
      /\ calls[c].op = "submit_csm_udh"
      /\ Len(calls[c].sent) = 3
      /\ Len(calls[c].sent[3].kw["short_message"]) = 6 + (MaxLen - 260)

\* C7: a response invokes exactly one transport handler: the throttle handler
\* for ESME_RTHROTTLED and ESME_RMSGQFUL, the success handler for ESME_ROK,
\* the failure handler for anything else.
C7_ResponseRouting ==
    handled.args # <<>> =>
      LET message_id == handled.args[1]
          pdu_status == handled.args[3]
      IN /\ Len(handled.invoked) = 1
         /\ (pdu_status \in {"ESME_RTHROTTLED", "ESME_RMSGQFUL"}) =>
               /\ handled.invoked[1].handler = "handle_submit_sm_throttled"
               /\ handled.invoked[1].args = <<message_id>>
         /\ (pdu_status = "ESME_ROK") =>
               /\ handled.invoked[1].handler = "handle_submit_sm_success"
               /\ handled.invoked[1].args = handled.args
         /\ (pdu_status \notin {"ESME_RTHROTTLED", "ESME_RMSGQFUL", "ESME_ROK"}) =>
               /\ handled.invoked[1].handler = "handle_submit_sm_failure"
               /\ handled.invoked[1].args = handled.args

\* A queue-full response has been dispatched.
C7_Witness ==
    /\ handled.args # <<>>
    /\ handled.args[3] = "ESME_RMSGQFUL"
    /\ Len(handled.invoked) = 1

\* C8: a concatenation call whose message fits in one message draws no
\* reference number, writes no stash entry, makes one submission carrying the
\* caller's parameters and the whole message and nothing else, and returns
\* that submission's sequence numbers.
C8_SinglePartPlain ==
    \A c \in Calls :
      LET call == calls[c] IN
        (IsCsm(call) /\ fits_in_one_message(call.message)) =>
          /\ call.ref_draws = 0
          /\ call.stash_writes = 0
          /\ c \notin DOMAIN message_stash
          /\ Len(call.sent) <= 1
          /\ call.pc \in {"wait_submit", "done"} => Len(call.sent) = 1
          /\ \A k \in 1..Len(call.sent) :
                call.sent[k].kw =
                    Update(call.kw, [x \in {"short_message"} |-> call.message])
          /\ call.pc = "done" => call.result = <<call.sent[1].sequence_number>>

\* A 160-byte printable message went through submit_csm_udh as one part.
C8_Witness ==
    \E c \in Calls :
      /\ calls[c].op = "submit_csm_udh"
      /\ Len(calls[c].message) = GSM_MAX_SMS_7BIT_CHARS
      /\ calls[c].pc = "done"
      /\ Len(calls[c].sent) = 1
      /\ Len(calls[c].result) = 1

\* C9: submit_csm_udh called with esm_class has failed with the parameter
\* error, with nothing submitted, no reference number drawn and no stash
\* write.
C9_UdhRejectsEsmClass ==
    \A c \in Calls :
      LET call == calls[c] IN
        UdhWithEsmClass(call) =>
          /\ call.pc = "failed"
          /\ call.error = InvalidParameter
          /\ call.sent = <<>>
          /\ call.ref_draws = 0
          /\ call.stash_writes = 0
          /\ c \notin DOMAIN message_stash

\* The rejected call was made with a session up and a multi-chunk message.
C9_Witness ==
    \E c \in Calls :
      /\ UdhWithEsmClass(calls[c])
      /\ calls[c].connected_at_call
      /\ Len(calls[c].message) = MaxLen
      /\ calls[c].error = InvalidParameter

\* C10: submit_sm_long called with short_message has failed with the
\* parameter error and submitted nothing.
C10_LongRejectsShortMessage ==
    \A c \in Calls :
      LET call == calls[c] IN
        (call.op = "submit_sm_long" /\ "short_message" \in DOMAIN call.kw) =>
          /\ call.pc = "failed"
          /\ call.error = InvalidParameter
          /\ call.sent = <<>>

\* The rejected call was made with a session up.
C10_Witness ==
    \E c \in Calls :
      /\ calls[c].op = "submit_sm_long"
      /\ "short_message" \in DOMAIN calls[c].kw
      /\ calls[c].connected_at_call
      /\ calls[c].error = InvalidParameter

\* Every byte of the message is in [0x20, 0x7f].
AllPrintable(message) == \A k \in 1..Len(message) : message[k] \in 32..127

\* C11: _fits_in_one_message returns true exactly when the message has at
\* most 140 bytes, or at most 160 bytes all of them in [0x20, 0x7f].
C11_FitsDecision ==
    probe.fits_applied =>
      (probe.fits <=>
         \/ Len(probe.message) <= 140
         \/ Len(probe.message) <= 160 /\ AllPrintable(probe.message))

\* A 160-byte message with one byte outside the range was found not to fit.
C11_Witness ==
    /\ probe.fits_applied
    /\ Len(probe.message) = 160
    /\ ~AllPrintable(probe.message)
    /\ ~probe.fits

\* C12: csm_split_message returns the whole message as its only element when
\* the message fits; otherwise ceil(L/130) consecutive chunks, each of 130
\* bytes but the last, which holds the remainder.
C12_SplitChunks ==
    probe.split_applied =>
      LET message == probe.message
          L == Len(message)
          split_msg == probe.split_msg
          N == Len(split_msg)
      IN IF L <= 140 \/ (L <= 160 /\ AllPrintable(message))
         THEN split_msg = <<message>>
         ELSE /\ N = (L + 129) \div 130
              /\ \A k \in 1..N :
                   /\ Len(split_msg[k]) = (IF k < N THEN 130 ELSE L - 130 * (N - 1))
                   /\ split_msg[k] =
                        SubSeq(message, 130 * (k - 1) + 1, IF k < N THEN 130 * k ELSE L)

\* A 161-byte printable message was split into chunks of 130 and 31 bytes.
C12_Witness ==
    /\ probe.split_applied
    /\ Len(probe.message) = 161
    /\ AllPrintable(probe.message)
    /\ Len(probe.split_msg) = 2
    /\ Len(probe.split_msg[1]) = 130
    /\ Len(probe.split_msg[2]) = 31

\* C13: with no session get_bind_state is CLOSED and is_bound is false;
\* with one, both report the state of the session that is current now.
C13_BindStateDelegates ==
    /\ protocol = None => (get_bind_state = "CLOSED" /\ ~is_bound)
    /\ protocol # None =>
         /\ get_bind_state = session_state[protocol]
         /\ is_bound <=> session_is_bound(protocol)

\* The second session is bound while the first, replaced, is closed.
C13_Witness ==
    /\ sessions = 2
    /\ protocol = 2
    /\ session_state[1] = "CLOSED"
    /\ get_bind_state = "BOUND_TRX"
    /\ is_bound

\* C14: after a bind signal the service has asked the transport to unpause,
\* after a connection-lost signal to pause; the transport is paused exactly
\* when the latest of the two signals was a connection loss.
C14_PauseFollowsSignals ==
    /\ lifecycle.last_signal = "bind" =>
         (transport.asked = "unpause_connectors" /\ ~transport.paused)
    /\ lifecycle.last_signal = "lost" =>
         (transport.asked = "pause_connectors" /\ transport.paused)

\* The second session has bound, after the first was lost.
C14_Witness ==
    /\ sessions = 2
    /\ protocol = 2
    /\ lifecycle.last_signal = "bind"
    /\ ~transport.paused

\* C15: no stopService call fails; a call made with a session asks for its
\* disconnect first and stops the reconnecting client only once that has
\* completed; a call made with no session only stops the reconnecting client.
C15_StopDisconnectsFirst ==
    /\ lifecycle.stop_error = ""
    /\ \A k \in 1..Len(lifecycle.stop_calls) :
         LET call == lifecycle.stop_calls[k] IN
           /\ call.session # None =>
                \/ /\ call.events = <<"disconnect">>
                   /\ ~call.completed
                   /\ k = Len(lifecycle.stop_calls)
                   /\ lifecycle.stop_waiting
                   /\ k = 1 => ~lifecycle.stopped
                \/ /\ call.events = <<"disconnect", "stopService">>
                   /\ call.completed
                   /\ lifecycle.stopped
           /\ call.session = None =>
                /\ call.events = <<"stopService">>
                /\ call.completed
                /\ lifecycle.stopped

\* stopService completed with a session, then again with none.
C15_Witness ==
    /\ Len(lifecycle.stop_calls) = 2
    /\ lifecycle.stop_calls[1].session # None
    /\ lifecycle.stop_calls[1].completed
    /\ lifecycle.stop_calls[2].session = None
    /\ lifecycle.stop_calls[2].completed

\* C16: a completed multi-chunk call returns the sequence numbers the
\* session assigned to its segments, in the order the segments were sent.
C16_SequenceNumbersInOrder ==
    \A c \in Calls :
      LET call == calls[c] IN
        (IsMultipart(call) /\ call.pc = "done") =>
          /\ Len(call.result) = Total(call)
          /\ \A k \in 1..Total(call) : call.result[k] = call.sent[k].sequence_number

\* Three segments went out and their three numbers came back, first to last.
C16_Witness ==
    \E c \in Calls :
      /\ calls[c].op = "submit_csm_udh"
      /\ calls[c].pc = "done"
      /\ Len(calls[c].result) = 3
      /\ calls[c].result[1] < calls[c].result[2]
      /\ calls[c].result[2] < calls[c].result[3]

\* A multi-chunk call that ended with fewer than N segments sent has failed
\* with the not-connected error, and the stash entry it wrote is in place.
C17_Failed ==
    \A c \in Calls :
      LET call == calls[c] IN
        (IsMultipart(call) /\ call.pc \in {"done", "failed"}
           /\ Len(call.sent) < Total(call)) =>
          /\ call.pc = "failed"
          /\ call.error = NotConnected
          /\ call.stash_writes = 1
          /\ c \in DOMAIN message_stash
          /\ message_stash[c] = Total(call)

\* A failed call does nothing more, and its stash entry stays as it is.
C17_Abandoned ==
    \A c \in Calls :
      calls[c].pc = "failed" =>
        /\ calls'[c] = calls[c]
        /\ c \in DOMAIN message_stash =>
             (c \in DOMAIN message_stash' /\ message_stash'[c] = message_stash[c])

\* C17: when the session is gone at segment k+1, the call fails with the
\* error, segments k+1..N are never submitted, and the stash entry is kept.
C17_PartialFailure == []C17_Failed /\ [][C17_Abandoned]_vars

\* A call failed after its first segment and before its last.
C17_Witness ==
    \E c \in Calls :
      /\ IsMultipart(calls[c])
      /\ calls[c].pc = "failed"
      /\ Len(calls[c].sent) >= 1
      /\ Len(calls[c].sent) < Total(calls[c])
      /\ c \in DOMAIN message_stash

\* Every new submission is handed to the session that is current in that step.
C18_ToCurrent ==
    \A c \in Calls :
      Len(calls'[c].sent) > Len(calls[c].sent) =>
        /\ protocol # None
        /\ calls'[c].sent[Len(calls'[c].sent)].protocol = protocol

\* C18: every submission, each segment included, goes to the session current
\* at the moment it is made, never to a replaced one.
C18_CurrentSession == [][C18_ToCurrent]_vars

\* A message's first segment went to the first session, its second to the
\* session that replaced it.
C18_Witness ==
    \E c \in Calls :
      /\ Len(calls[c].sent) >= 2
      /\ calls[c].sent[1].protocol = 1
      /\ calls[c].sent[2].protocol = 2

\* The chunks joined in order.
RECURSIVE Concat(_)
Concat(chunks) ==
    IF chunks = <<>> THEN <<>> ELSE Head(chunks) \o Concat(Tail(chunks))

\* The chunk carried by the k-th submission of a multi-chunk call.
SegChunk(call, k) ==
    IF call.op = "submit_csm_sar"
    THEN call.sent[k].kw["short_message"]
    ELSE SubSeq(call.sent[k].kw["short_message"], 7,
                Len(call.sent[k].kw["short_message"]))

\* C20: the chunks of a message joined in order are the message; of several
\* chunks none is empty or longer than 130 bytes, so a SAR segment's
\* short_message has at most 130 bytes and a UDH segment's at most 136.
C20_ChunksCoverMessage ==
    \A c \in Calls :
      LET call == calls[c] IN
        (IsCsm(call) /\ call.pc # "idle") =>
          /\ Concat(call.split_msg) = call.message
          /\ Len(call.split_msg) > 1 =>
               /\ \A k \in 1..Len(call.split_msg) :
                    Len(call.split_msg[k]) \in 1..130
               /\ \A k \in 1..Len(call.sent) :
                    /\ SegChunk(call, k) = call.split_msg[k]
                    /\ Len(call.sent[k].kw["short_message"]) <=
                         (IF call.op = "submit_csm_sar" THEN 130 ELSE 136)

\* A 260-byte message went out through UDH as two segments of 136 bytes.
C20_Witness ==
    \E c \in Calls :
      /\ calls[c].op = "submit_csm_udh"
      /\ Len(calls[c].message) = 260
      /\ Len(calls[c].split_msg) = 2
      /\ Len(calls[c].sent) = 2
      /\ Len(calls[c].sent[2].kw["short_message"]) = 136

\* The reference value a call's segments are to carry.
OwnRef(call) ==
    IF call.op = "submit_csm_sar" THEN sar_ref(call.ref_num) ELSE udh_ref(call.ref_num)

\* The call's yield on sequence_generator.next() has fired.
RefBound(call) == IsMultipart(call) /\ call.pc \notin {"idle", "wait_ref"}

\* C19: with two multi-chunk calls interleaving at their yields, every segment
\* sent for a message carries that message's id, the reference number that
\* call drew, its total and its next index; a call returns the sequence
\* numbers of its own segments only, and no two calls drew the same number.
C19_CallsKeepOwnState ==
    \A c \in Calls :
      LET call == calls[c] IN
        IsMultipart(call) =>
          /\ \A k \in 1..Len(call.sent) :
                /\ call.sent[k].vumi_message_id = c
                /\ SegRef(call, k) = OwnRef(call)
                /\ SegTotal(call, k) = Total(call)
                /\ SegIndex(call, k) = k
          /\ call.pc = "done" =>
                /\ Len(call.result) = Len(call.sent)
                /\ \A k \in 1..Len(call.sent) :
                      call.result[k] = call.sent[k].sequence_number
          /\ \A d \in Calls \ {c} :
                /\ (RefBound(call) /\ RefBound(calls[d])) =>
                      call.ref_num # calls[d].ref_num
                /\ \A k \in 1..Len(call.sent), j \in 1..Len(calls[d].sent) :
                      call.sent[k].sequence_number # calls[d].sent[j].sequence_number

\* Two calls completed with their segments interleaved on the session: the
\* second call's first segment went out between the first call's segments.
C19_Witness ==
    \E c \in Calls, d \in Calls :
      /\ c # d
      /\ calls[c].pc = "done" /\ calls[d].pc = "done"
      /\ calls[c].op # calls[d].op
      /\ Len(calls[c].sent) = 3 /\ Len(calls[d].sent) = 2
      /\ calls[c].sent[1].sequence_number < calls[d].sent[1].sequence_number
      /\ calls[d].sent[1].sequence_number < calls[c].sent[2].sequence_number
      /\ calls[d].sent[2].sequence_number < calls[c].sent[3].sequence_number

====
